---- MODULE Spec2Model ----
(***************************************************************************)
(* Model of samples/classification/document-intelligence-embeddings.ipynb: *)
(* the category and page embedding loops, the cosine-similarity            *)
(* classification loop with its threshold gate, and the result list.       *)
(*                                                                         *)
(* A similarity is the real number sgn * sqrt(num / den), kept exactly as  *)
(* the record [sgn, num, den] with num/den in lowest terms, so that two    *)
(* similarities are equal iff their records are equal.                     *)
(***************************************************************************)
EXTENDS Integers, Sequences, FiniteSets, TLC

(* ----------------------------- bounds --------------------------------- *)

\* Largest number of pages the analysed document has.
MaxPages == 2

\* Largest number of pages of each of the two runs compared in SpecPair.
MaxPairPages == 2

\* Largest number of records of the expected (ground truth) output.
MaxExpected == 2

\* Vectors the embedding service may return: empty (no embedding), a
\* one-dimensional vector, and two-dimensional vectors: the zero vector, a
\* 3-4-5 direction (cosine exactly 0.6 to <<1, 0>>) and a direction with a
\* negative and a small positive cosine to the others.
Embeddings == { <<>>, <<1>>, <<1, 0>>, <<3, 4>>, <<-1, 2>>, <<0, 0>> }

\* Vectors used for the two-run comparison.
PairEmbeddings == { <<>>, <<1, 0>>, <<3, 4>>, <<-1, 2>> }

(* --------------------------- arithmetic ------------------------------- *)

Sign(n) == IF n < 0 THEN -1 ELSE IF n = 0 THEN 0 ELSE 1

Min(a, b) == IF a <= b THEN a ELSE b

RECURSIVE GCD(_, _)
GCD(a, b) == IF b = 0 THEN a ELSE GCD(b, a % b)

\* The float sgn * sqrt(n / d), d > 0, in canonical form.
Float(sgn, n, d) ==
  IF n = 0 \/ sgn = 0
    THEN [sgn |-> 0, num |-> 0, den |-> 1]
    ELSE [sgn |-> sgn, num |-> n \div GCD(n, d), den |-> d \div GCD(n, d)]

\* The literal 0.0
Zero == Float(0, 0, 1)

\* a < b and a <= b on floats: x |-> sgn(x) * x^2 is increasing.
FloatLess(a, b) == a.sgn * a.num * b.den < b.sgn * b.num * a.den

FloatLeq(a, b) == a.sgn * a.num * b.den <= b.sgn * b.num * a.den

(* ------------------------- program constants -------------------------- *)

\* similarity_threshold = 0.6 = sqrt(9 / 25)
similarity_threshold == Float(1, 9, 25)

\* The 'classification' names of the literal list of category dicts.
classification_names ==
  << "Insurance Policy", "Insurance Certificate", "Terms and Conditions" >>

NumClassifications == Len(classification_names)

(* --------------------------- pure functions --------------------------- *)

RECURSIVE DotUpTo(_, _, _)
DotUpTo(a, b, n) == IF n = 0 THEN 0 ELSE DotUpTo(a, b, n - 1) + a[n] * b[n]

\* Inner product over the coordinates both vectors have.
Dot(a, b) == DotUpTo(a, b, Min(Len(a), Len(b)))

\* np.array(rows) of a list of lists: raises ValueError for ragged rows.
np_array_ok(rows) == \A i, j \in 1..Len(rows) : Len(rows[i]) = Len(rows[j])

\* Number of columns of a matrix with at least one row.
Columns(matrix) == Len(matrix[1])

\* sklearn check_pairwise_arrays: both arrays need the same, non-zero,
\* number of features, else ValueError.
check_pairwise_arrays_lenient(page_vector, matrix) == TRUE

check_pairwise_arrays(page_vector, matrix) ==
  Len(page_vector) = Columns(matrix) /\ Columns(matrix) >= 1

\* Cosine of two vectors; a zero-norm vector is left unnormalised by
\* sklearn's normalize, so its similarity to anything is 0.
cosine(a, b) ==
  LET n == Dot(a, a) * Dot(b, b)
      d == Dot(a, b)
  IN IF n = 0 THEN Zero ELSE Float(Sign(d), d * d, n)

\* cosine_similarity(page_vector, classification_matrix)[0]
cosine_similarity(page_vector, matrix) ==
  [k \in 1..Len(matrix) |-> cosine(page_vector, matrix[k])]

RECURSIVE argmax_scan_last(_, _, _)
argmax_scan_last(xs, k, best) ==
  IF k > Len(xs) THEN best
  ELSE argmax_scan_last(xs, k + 1, IF FloatLeq(xs[best], xs[k]) THEN k ELSE best)

RECURSIVE argmax_scan(_, _, _)
argmax_scan(xs, k, best) ==
  IF k > Len(xs) THEN best
  ELSE argmax_scan(xs, k + 1, IF FloatLess(xs[best], xs[k]) THEN k ELSE best)

\* np.argmax with ties going to the last maximum.
argmax_last(xs) == argmax_scan_last(xs, 2, 1)

\* np.argmax(similarities): index (1-based here) of the first maximum.
argmax(xs) == argmax_scan(xs, 2, 1)

\* similarities[best_match_idx], replaced by the first entry.
select_first(similarities, best_match_idx) == similarities[1]

\* best_similarity = similarities[best_match_idx]
select_best(similarities, best_match_idx) == similarities[best_match_idx]

\* f"Unclassified ({name})"
UnclassifiedLabel(name) == "Unclassified (" \o name \o ")"

\* The gate never applying the prefix.
threshold_gate_always(best, threshold, name) == name

\* The gate with the comparison reversed.
threshold_gate_reversed(best, threshold, name) ==
  IF FloatLeq(best, threshold) THEN name ELSE UnclassifiedLabel(name)

\* The gate with a strict comparison.
threshold_gate_strict(best, threshold, name) ==
  IF FloatLess(threshold, best) THEN name ELSE UnclassifiedLabel(name)

\* The gate dropping the candidate's name below the threshold.
threshold_gate_anonymous(best, threshold, name) ==
  IF FloatLeq(threshold, best) THEN name ELSE "Unclassified"

\* if best_similarity >= similarity_threshold: ... else: ...
threshold_gate(best, threshold, name) ==
  IF FloatLeq(threshold, best) THEN name ELSE UnclassifiedLabel(name)

\* Classification(...) numbering pages from 1.
Classification_one_based(page_number, classification, similarity) ==
  [page_number |-> page_number + 1, classification |-> classification,
   similarity |-> similarity]

\* Classification(page_number=..., classification=..., similarity=...)
Classification(page_number, classification, similarity) ==
  [page_number |-> page_number, classification |-> classification,
   similarity |-> similarity]

(* ---------------------------- evaluation ----------------------------- *)

\* The literal 1.0
One == Float(1, 1, 1)

\* The float m / n, n > 0.
Ratio(m, n) == Float(1, m * m, n * n)

\* Fields of a Classification record.
Fields == { "page_number", "classification", "similarity" }

\* Joining on the label instead of the page.
match_keys_by_label == { "classification" }

\* AccuracyEvaluator(match_keys=["page_number"], ...)
match_keys == { "page_number" }

\* Ignoring the join key only.
ignore_keys_page_only == { "page_number" }

\* AccuracyEvaluator(..., ignore_keys=["page_number", "similarity"])
ignore_keys == { "page_number", "similarity" }

\* Classifications.to_dict(): the list of record dicts, field by field.
to_dict(records) ==
  [i \in 1..Len(records) |-> [f \in Fields |-> records[i][f]]]

\* The records a and b agree on every field in keys.
SameOn(keys, a, b) == \A f \in keys : a[f] = b[f]

\* Positions of the actual records joined to the expected record e.
Joined(e, actual, mkeys) ==
  { j \in 1..Len(actual) : SameOn(mkeys, e, actual[j]) }

\* The expected record e has a joined actual record (the first under the
\* key) equal to it on every field that is not ignored; no joined record
\* is a mismatch.
record_matches(e, actual, mkeys, ikeys) ==
  LET J == Joined(e, actual, mkeys) IN
  /\ J # {}
  /\ LET j == CHOOSE m \in J : \A n \in J : m <= n
     IN SameOn(Fields \ ikeys, e, actual[j])

\* AccuracyEvaluator.evaluate(expected, actual): matching expected records
\* over expected records.
evaluate(expected, actual, mkeys, ikeys) ==
  [overall |->
     Ratio(Cardinality({ i \in 1..Len(expected) :
                           record_matches(expected[i], actual, mkeys, ikeys) }),
           Len(expected))]

\* The expected outputs a human may have established: one record per page
\* from page 0 on, labelled with a category name, similarity 1.0.
Expecteds ==
  UNION { { [i \in 1..n |-> Classification(i - 1, classification_names[lab[i]], One)] :
              lab \in [1..n -> 1..NumClassifications] } : n \in 1..MaxExpected }

(* ------------------------ one loop iteration -------------------------- *)

\* The body of 'for idx, page_emb in enumerate(page_embeddings)' applied to
\* the run r = [page_embeddings, document_classifications, idx,
\* best_similarity, similarity, pc, error], where r.idx is the enumerate
\* index of the page to process.  best_similarity and similarity are <<>>
\* while the name is unbound and <<v>> once it holds v.
\* The loop leaving for the next cell after any page.
AfterPage_early(r) == [r EXCEPT !.idx = @ + 1, !.pc = "evaluate"]

AfterPage(r) ==
  [r EXCEPT !.idx = @ + 1,
            !.pc = IF r.idx + 1 = Len(r.page_embeddings)
                     THEN "evaluate" ELSE "classify"]

Raise(r, exc) == [r EXCEPT !.pc = "error", !.error = exc]

classify_page(r, names, matrix, threshold) ==
  LET page_emb == r.page_embeddings[r.idx + 1] IN
  IF page_emb = <<>>
    THEN \* classification = "Unclassified"; similarity = 0.0; the record
         \* is then built from best_similarity
         LET s == [r EXCEPT !.similarity = <<Zero>>] IN
         IF s.best_similarity = <<>>
           THEN Raise(s, "NameError")
           ELSE AfterPage([s EXCEPT !.document_classifications =
                  Append(@, Classification(r.idx, "Unclassified",
                                           s.best_similarity[1]))])
    ELSE IF ~ check_pairwise_arrays(page_emb, matrix)
      THEN Raise(r, "ValueError")
      ELSE
        LET similarities == cosine_similarity(page_emb, matrix)
            best_match_idx == argmax(similarities)
            best == select_best(similarities, best_match_idx)
            label == threshold_gate(best, threshold, names[best_match_idx])
        IN AfterPage([r EXCEPT
             !.best_similarity = <<best>>,
             !.document_classifications =
                Append(@, Classification(r.idx, label, best))])

(* ------------------------------ state --------------------------------- *)

VARIABLES
  pc,                        \* the cell / loop the notebook is at
  error,                     \* the exception that stopped the run, or "none"
  pages_content,             \* page texts extracted from the document
  classifications,           \* the category dicts; embedding is <<>> (no
                             \* key yet) or <<vector>>
  page_embeddings,           \* embeddings of the pages, in page order
  classification_matrix,     \* rows: the category embeddings
  document_classifications,  \* the result records
  idx,                       \* enumerate index of the next page
  best_similarity,           \* <<>> if unbound, else <<value>>
  similarity,                \* <<>> if unbound, else <<value>>
  other,                     \* the second run of SpecPair
  expected_dict,             \* <<>> if unbound, else <<list of dicts>>
  classifications_dict,      \* <<>> if unbound, else <<list of dicts>>
  accuracy,                  \* <<>> if unbound, else <<report>>
  thresholds                 \* thresholds of the two runs of SpecThresholds

vars == << pc, error, pages_content, classifications, page_embeddings,
           classification_matrix, document_classifications, idx,
           best_similarity, similarity, other, expected_dict,
           classifications_dict, accuracy, thresholds >>

\* The variables of the evaluation cell and of the threshold comparison.
evalvars == << expected_dict, classifications_dict, accuracy, thresholds >>

\* Nothing evaluated yet, both thresholds the notebook's.
InitEval ==
  /\ expected_dict = <<>>
  /\ classifications_dict = <<>>
  /\ accuracy = <<>>
  /\ thresholds = << similarity_threshold, similarity_threshold >>

\* The loop-carried state of the classification cell, as a record.
Run ==
  [page_embeddings |-> page_embeddings,
   document_classifications |-> document_classifications,
   idx |-> idx, best_similarity |-> best_similarity,
   similarity |-> similarity, pc |-> pc, error |-> error]

\* A run that has not started classifying the given pages.
FreshRun(embs) ==
  [page_embeddings |-> embs, document_classifications |-> <<>>,
   idx |-> 0, best_similarity |-> <<>>, similarity |-> <<>>,
   pc |-> IF embs = <<>> THEN "evaluate" ELSE "classify", error |-> "none"]

NoRun == FreshRun(<<>>)

SetRun(r) ==
  /\ page_embeddings' = r.page_embeddings
  /\ document_classifications' = r.document_classifications
  /\ idx' = r.idx
  /\ best_similarity' = r.best_similarity
  /\ similarity' = r.similarity
  /\ pc' = r.pc
  /\ error' = r.error

Init ==
  /\ pc = "embed_classifications"
  /\ error = "none"
  /\ pages_content \in { [i \in 1..n |-> "text"] : n \in 0..MaxPages }
  /\ classifications =
       [k \in 1..NumClassifications |->
          [classification |-> classification_names[k], embedding |-> <<>>]]
  /\ page_embeddings = <<>>
  /\ classification_matrix = <<>>
  /\ document_classifications = <<>>
  /\ idx = 0
  /\ best_similarity = <<>>
  /\ similarity = <<>>
  /\ other = NoRun
  /\ InitEval

(* ----------------------------- actions -------------------------------- *)

\* One iteration of 'for classification in classifications': the next
\* category without an embedding gets the one the service returns.
EmbedClassification ==
  /\ pc = "embed_classifications"
  /\ \E k \in 1..NumClassifications, e \in Embeddings :
       /\ classifications[k].embedding = <<>>
       /\ \A j \in 1..(k - 1) : classifications[j].embedding # <<>>
       /\ classifications' = [classifications EXCEPT ![k].embedding = <<e>>]
       /\ pc' = IF k = NumClassifications
                  THEN "embed_pages" ELSE "embed_classifications"
  /\ UNCHANGED << error, pages_content, page_embeddings,
                  classification_matrix, document_classifications, idx,
                  best_similarity, similarity, other >>
  /\ UNCHANGED evalvars

\* One iteration of 'for idx, text in enumerate(pages_content)', or the
\* end of that loop when every page has its embedding.
EmbedPage ==
  /\ pc = "embed_pages"
  /\ Len(page_embeddings) < Len(pages_content)
  /\ \E e \in Embeddings : page_embeddings' = Append(page_embeddings, e)
  /\ UNCHANGED << pc, error, pages_content, classifications,
                  classification_matrix, document_classifications, idx,
                  best_similarity, similarity, other >>
  /\ UNCHANGED evalvars

\* Lines 384-390: the matrix of category embeddings and the empty result
\* list; np.array raises on rows of different lengths.
BuildMatrix ==
  /\ pc = "embed_pages"
  /\ Len(page_embeddings) = Len(pages_content)
  /\ LET rows == [k \in 1..NumClassifications |->
                    classifications[k].embedding[1]]
     IN IF np_array_ok(rows)
          THEN /\ classification_matrix' = rows
               /\ document_classifications' = <<>>
               /\ pc' = IF page_embeddings = <<>> THEN "evaluate" ELSE "classify"
               /\ error' = error
          ELSE /\ pc' = "error"
               /\ error' = "ValueError"
               /\ UNCHANGED << classification_matrix, document_classifications >>
  /\ UNCHANGED << pages_content, classifications, page_embeddings, idx,
                  best_similarity, similarity, other >>
  /\ UNCHANGED evalvars

\* One iteration of the classification loop.
ClassifyPage ==
  /\ pc = "classify"
  /\ idx < Len(page_embeddings)
  /\ SetRun(classify_page(Run, classification_names, classification_matrix,
                          similarity_threshold))
  /\ UNCHANGED << pages_content, classifications, classification_matrix, other >>
  /\ UNCHANGED evalvars

\* Lines 430-433: both outputs as dicts and the evaluation of the actual
\* against the expected output.
Evaluate ==
  /\ pc = "evaluate"
  /\ \E expected \in Expecteds :
       /\ expected_dict' = << to_dict(expected) >>
       /\ classifications_dict' = << to_dict(document_classifications) >>
       /\ accuracy' = << evaluate(to_dict(expected),
                                  to_dict(document_classifications),
                                  match_keys, ignore_keys) >>
  /\ pc' = "done"
  /\ UNCHANGED << error, pages_content, classifications, page_embeddings,
                  classification_matrix, document_classifications, idx,
                  best_similarity, similarity, other, thresholds >>

Next ==
  EmbedClassification \/ EmbedPage \/ BuildMatrix \/ ClassifyPage \/ Evaluate

Spec == Init /\ [][Next]_vars

(* ------------------------- the two-run system ------------------------- *)

\* Non-empty sequences over S of length at most n.
SeqsUpTo(S, n) == UNION { [1..m -> S] : m \in 1..n }

\* Two runs of the classification cell over the same categories and
\* threshold, each on a fresh kernel right after its matrix was built: the
\* variables of the one-run system hold the first run, 'other' the second.
InitPair ==
  /\ pc = "classify"
  /\ error = "none"
  /\ \E rows \in [1..NumClassifications -> PairEmbeddings \ {<<>>}] :
       /\ classifications =
            [k \in 1..NumClassifications |->
               [classification |-> classification_names[k],
                embedding |-> <<rows[k]>>]]
       /\ classification_matrix = rows
  /\ page_embeddings \in SeqsUpTo(PairEmbeddings, MaxPairPages)
  /\ pages_content = [i \in 1..Len(page_embeddings) |-> "text"]
  /\ document_classifications = <<>>
  /\ idx = 0
  /\ best_similarity = <<>>
  /\ similarity = <<>>
  /\ \E embs \in SeqsUpTo(PairEmbeddings, MaxPairPages) : other = FreshRun(embs)
  /\ InitEval

\* One iteration of the classification loop of the second run, which
\* starts when the first run has stopped.
ClassifyOtherPage ==
  /\ pc # "classify"
  /\ other.pc = "classify"
  /\ other' = classify_page(other, classification_names,
                            classification_matrix, similarity_threshold)
  /\ UNCHANGED << pc, error, pages_content, classifications, page_embeddings,
                  classification_matrix, document_classifications, idx,
                  best_similarity, similarity >>
  /\ UNCHANGED evalvars

NextPair == ClassifyPage \/ ClassifyOtherPage

SpecPair == InitPair /\ [][NextPair]_vars

(* ---------------------- the two-threshold system ---------------------- *)

\* Thresholds compared: 0.0, sqrt(1/5) (the cosine of <<3, 4>> and
\* <<-1, 2>>), the notebook's 0.6 and 1.0.
Thresholds == { Zero, Float(1, 1, 5), similarity_threshold, One }

\* Two runs of the classification cell over the same categories and the
\* same pages, the first with threshold thresholds[1], the second with a
\* threshold thresholds[2] that is at least as large.
InitThresholds ==
  /\ pc = "classify"
  /\ error = "none"
  /\ \E rows \in [1..NumClassifications -> PairEmbeddings \ {<<>>}] :
       /\ classifications =
            [k \in 1..NumClassifications |->
               [classification |-> classification_names[k],
                embedding |-> <<rows[k]>>]]
       /\ classification_matrix = rows
  /\ page_embeddings \in SeqsUpTo(PairEmbeddings, MaxPairPages)
  /\ pages_content = [i \in 1..Len(page_embeddings) |-> "text"]
  /\ document_classifications = <<>>
  /\ idx = 0
  /\ best_similarity = <<>>
  /\ similarity = <<>>
  /\ other = FreshRun(page_embeddings)
  /\ expected_dict = <<>>
  /\ classifications_dict = <<>>
  /\ accuracy = <<>>
  /\ thresholds \in { t \in Thresholds \X Thresholds : FloatLeq(t[1], t[2]) }

\* One iteration of the classification loop of the first run.
ClassifyPageAt ==
  /\ pc = "classify"
  /\ idx < Len(page_embeddings)
  /\ SetRun(classify_page(Run, classification_names, classification_matrix,
                          thresholds[1]))
  /\ UNCHANGED << pages_content, classifications, classification_matrix, other >>
  /\ UNCHANGED evalvars

\* One iteration of the classification loop of the second run, which
\* starts when the first run has stopped.
ClassifyOtherPageAt ==
  /\ pc # "classify"
  /\ other.pc = "classify"
  /\ other' = classify_page(other, classification_names,
                            classification_matrix, thresholds[2])
  /\ UNCHANGED << pc, error, pages_content, classifications, page_embeddings,
                  classification_matrix, document_classifications, idx,
                  best_similarity, similarity >>
  /\ UNCHANGED evalvars

NextThresholds == ClassifyPageAt \/ ClassifyOtherPageAt

SpecThresholds == InitThresholds /\ [][NextThresholds]_vars

(* -------------------- vocabulary of the properties -------------------- *)

\* Positions of the result list.
Recorded == 1..Len(document_classifications)

\* The cosine of every two vectors the embedding service may return.
CosineOf ==
  [a \in Embeddings \cup PairEmbeddings |->
     [b \in Embeddings \cup PairEmbeddings |-> cosine(a, b)]]

\* The similarities of page i to the categories, from the definition of
\* the cosine.
SimsOf(i) ==
  [k \in 1..NumClassifications |->
     CosineOf[page_embeddings[i]][classification_matrix[k]]]

\* k attains the maximum of the similarities sims.
IsMaxIn(sims, k) == \A j \in 1..Len(sims) : FloatLeq(sims[j], sims[k])

\* The smallest index attaining the maximum of sims.
FirstMaxIn(sims) ==
  CHOOSE k \in 1..Len(sims) :
    IsMaxIn(sims, k) /\ \A j \in 1..(k - 1) : ~ IsMaxIn(sims, j)

\* k attains the maximum of the similarities of page i.
IsMax(i, k) == LET sims == SimsOf(i) IN IsMaxIn(sims, k)

\* The smallest index attaining the maximum.
FirstMax(i) == LET sims == SimsOf(i) IN FirstMaxIn(sims)

MaxSim(i) == LET sims == SimsOf(i) IN sims[FirstMaxIn(sims)]

NonEmpty(i) == page_embeddings[i] # <<>>

Names == { classification_names[k] : k \in 1..NumClassifications }

\* The category a label names, with or without the prefix.
Names_of(label) ==
  { k \in 1..NumClassifications :
      label \in { classification_names[k],
                  UnclassifiedLabel(classification_names[k]) } }

IsUnclassified(label) ==
  label = "Unclassified" \/ label \in { UnclassifiedLabel(n) : n \in Names }

(* ------------------------------ claims -------------------------------- *)

\* C1: every page whose embedding is empty has the result
\* ("Unclassified", 0.0), wherever it is in the sequence and whatever was
\* classified before it.
C1_EmptyPageIsUnclassifiedZero ==
  \A i \in Recorded :
    ~ NonEmpty(i) =>
      /\ document_classifications[i].classification = "Unclassified"
      /\ document_classifications[i].similarity = Zero

\* C2: an empty page embedding is never fatal: when the classification
\* loop stops with an error, the page it stopped at has an embedding.
C2_EmptyPageNeverFatal ==
  (pc = "error" /\ classification_matrix # <<>>) => page_embeddings[idx + 1] # <<>>

\* C3: two runs with the same categories and threshold that agree on the
\* embedding of page i record the same label and the same similarity for
\* page i, whatever their other pages are.
C3_PageResultIndependentOfOtherPages ==
  \A i \in Recorded :
    (/\ i <= Len(other.document_classifications)
     /\ other.page_embeddings[i] = page_embeddings[i])
    => /\ other.document_classifications[i].classification
            = document_classifications[i].classification
       /\ other.document_classifications[i].similarity
            = document_classifications[i].similarity

\* C4: for a non-empty page the category named by the label is the one at
\* the smallest index among those attaining the maximum similarity.
C4_SelectsFirstMaximum ==
  \A i \in Recorded :
    NonEmpty(i) =>
      Names_of(document_classifications[i].classification) = { FirstMax(i) }

C4_Witness ==
  \E i \in Recorded :
    /\ NonEmpty(i)
    /\ \E j, k \in 1..NumClassifications :
         j < k /\ IsMax(i, j) /\ IsMax(i, k) /\ FirstMax(i) = j
    /\ \E j \in 1..NumClassifications : ~ IsMax(i, j)
    /\ Names_of(document_classifications[i].classification) = { FirstMax(i) }

C6_BelowThresholdGetsPrefixedName ==
  \A i \in Recorded :
    (NonEmpty(i) /\ FloatLess(MaxSim(i), similarity_threshold)) =>
      document_classifications[i].classification
        = "Unclassified (" \o classification_names[FirstMax(i)] \o ")"

C6_Witness ==
  \E i \in Recorded :
    /\ NonEmpty(i)
    /\ FloatLess(MaxSim(i), similarity_threshold)
    /\ FloatLess(Zero, MaxSim(i))
    /\ document_classifications[i].classification
         = "Unclassified (" \o classification_names[FirstMax(i)] \o ")"

\* C7: a page has an unprefixed category label only when its highest
\* similarity exceeds the threshold; otherwise it is Unclassified.
C7_NameOnlyAboveThreshold ==
  \A i \in Recorded :
    NonEmpty(i) =>
      IF FloatLess(similarity_threshold, MaxSim(i))
        THEN document_classifications[i].classification \in Names
        ELSE IsUnclassified(document_classifications[i].classification)

\* C8: for a non-empty page the stored similarity is the maximum
\* similarity of the page over all categories, also below the threshold.
C8_StoredSimilarityIsMaximum ==
  \A i \in Recorded :
    NonEmpty(i) => document_classifications[i].similarity = MaxSim(i)

C8_Witness ==
  \E i \in Recorded :
    /\ NonEmpty(i)
    /\ FloatLess(MaxSim(i), similarity_threshold)
    /\ MaxSim(i) # Zero
    /\ MaxSim(i) # SimsOf(i)[1]
    /\ document_classifications[i].similarity = MaxSim(i)

\* C9: after k pages the result list holds k records, the i-th with
\* page_number i (0-based); once the loop is over there is one record per
\* page.
C9_OneResultPerPageInOrder ==
  /\ Len(document_classifications) = idx
  /\ \A i \in Recorded : document_classifications[i].page_number = i - 1
  /\ pc \in {"evaluate", "done"} =>
       Len(document_classifications) = Len(page_embeddings)

C9_Witness ==
  /\ pc = "evaluate"
  /\ Len(document_classifications) >= 2
  /\ \E i \in Recorded : ~ NonEmpty(i)
  /\ \E i \in Recorded : NonEmpty(i)

\* C10: a page whose embedding differs in length from the category
\* embeddings gets no record: the loop stops there with a ValueError.
C10_DimensionMismatchFailsFast ==
  /\ \A i \in Recorded :
       NonEmpty(i) => Len(page_embeddings[i]) = Columns(classification_matrix)
  /\ (/\ pc \in {"classify", "evaluate", "done"}
      /\ classification_matrix # <<>>)
     => \A i \in 1..idx :
          NonEmpty(i) => Len(page_embeddings[i]) = Columns(classification_matrix)

C10_Witness ==
  /\ pc = "error"
  /\ error = "ValueError"
  /\ classification_matrix # <<>>
  /\ idx >= 1
  /\ page_embeddings[idx + 1] # <<>>
  /\ Len(page_embeddings[idx + 1]) # Columns(classification_matrix)
  /\ Len(document_classifications) = idx

(* ----------------------- claims on the evaluation --------------------- *)

\* The expected and the actual records the evaluator was given.
ExpectedRecords == expected_dict[1]

ActualRecords == classifications_dict[1]

\* Positions of the expected records.
ExpectedOnes == 1..Len(ExpectedRecords)

\* The expected record i has an actual record for its page.
HasActual(i) ==
  \E j \in 1..Len(ActualRecords) :
    ActualRecords[j].page_number = ExpectedRecords[i].page_number

\* The expected record i has an actual record for its page with its label.
HasEqualActual(i) ==
  \E j \in 1..Len(ActualRecords) :
    /\ ActualRecords[j].page_number = ExpectedRecords[i].page_number
    /\ ActualRecords[j].classification = ExpectedRecords[i].classification

\* C11: overall accuracy is the number of expected records whose actual
\* record for the same page_number has the same label, over the number of
\* expected records; a missing actual record is a mismatch, and the
\* accuracy is 0.0 when no expected page has an actual record.
C11_AccuracyIsMatchRate ==
  pc = "done" =>
    /\ accuracy[1].overall =
         Ratio(Cardinality({ i \in ExpectedOnes : HasEqualActual(i) }),
               Len(ExpectedRecords))
    /\ (\A i \in ExpectedOnes : ~ HasActual(i)) => accuracy[1].overall = Zero

C11_Witness ==
  /\ pc = "done"
  /\ \E i \in ExpectedOnes : ~ HasActual(i)
  /\ \E i \in ExpectedOnes : HasEqualActual(i)
  /\ accuracy[1].overall = Ratio(1, 2)

\* C12: overall accuracy is 1.0 when every expected record has an actual
\* record for its page with the same label, whatever the similarities of
\* the two records are.
C12_AccuracyOneIgnoresSimilarity ==
  (pc = "done" /\ \A i \in ExpectedOnes : HasEqualActual(i))
    => accuracy[1].overall = One

C12_Witness ==
  /\ pc = "done"
  /\ Len(ExpectedRecords) >= 2
  /\ \A i \in ExpectedOnes : HasEqualActual(i)
  /\ \E i \in ExpectedOnes, j \in 1..Len(ActualRecords) :
       /\ ActualRecords[j].page_number = ExpectedRecords[i].page_number
       /\ ActualRecords[j].similarity # ExpectedRecords[i].similarity
  /\ accuracy[1].overall = One

(* ------------------------ claims on the phases ------------------------ *)

AllCategoriesEmbedded ==
  \A k \in 1..NumClassifications : classifications[k].embedding # <<>>

\* xs' is xs, or xs with one more element at its end.
GrowsByAtMostOne(xs, ys) ==
  /\ Len(ys) \in { Len(xs), Len(xs) + 1 }
  /\ \A i \in 1..Len(xs) : ys[i] = xs[i]

C13_StateOrder ==
  /\ (document_classifications # <<>> \/ pc \in {"classify", "evaluate", "done"})
       => /\ AllCategoriesEmbedded
          /\ Len(page_embeddings) = Len(pages_content)
  /\ Len(page_embeddings) <= Len(pages_content)
  /\ Len(document_classifications) <= Len(page_embeddings)
  /\ Len(document_classifications) = idx
  /\ accuracy # <<>> <=> pc = "done"
  /\ pc = "done" => Len(document_classifications) = Len(pages_content)

C13_StepOrder ==
  /\ \A k \in 1..NumClassifications :
       classifications[k].embedding # <<>> => classifications'[k] = classifications[k]
  /\ GrowsByAtMostOne(page_embeddings, page_embeddings')
  /\ GrowsByAtMostOne(document_classifications, document_classifications')
  /\ accuracy # <<>> => accuracy' = accuracy
  /\ pc = "done" => pc' = "done"

\* C13: the phases come in a fixed order, each once: a category's
\* embedding is set once and all are set before any page is classified, a
\* page's embedding is appended once, each classification step appends the
\* record of the next page, and the evaluation happens once, after every
\* page has its record.
C13_PhasesInOrderOnce == []C13_StateOrder /\ [][C13_StepOrder]_vars

C13_Witness ==
  /\ pc = "done"
  /\ accuracy # <<>>
  /\ Len(pages_content) >= 2
  /\ Len(document_classifications) = Len(pages_content)
  /\ AllCategoriesEmbedded

(* ------------------------- end-to-end accuracy ------------------------ *)

\* Page i (1-based position) was classified, its best-matching category is
\* the given label and its best similarity is at least the threshold.
ConfidentlyAssigned(i, label) ==
  /\ i \in 1..Len(page_embeddings)
  /\ NonEmpty(i)
  /\ classification_names[FirstMax(i)] = label
  /\ FloatLeq(similarity_threshold, MaxSim(i))

RecordedByBoth ==
  1..Min(Len(document_classifications), Len(other.document_classifications))

\* C15: for the same pages and categories and thresholds t1 <= t2, a page
\* with an unprefixed category label at t2 has the same label at t1, and
\* the selected category and the recorded similarity are the same at both
\* thresholds: the labels differ at most by the "Unclassified (...)" prefix
\* at the larger threshold.
C15_MonotoneInThreshold ==
  \A i \in RecordedByBoth :
    LET low == document_classifications[i]
        high == other.document_classifications[i]
    IN /\ high.classification \in Names => low.classification = high.classification
       /\ Names_of(low.classification) = Names_of(high.classification)
       /\ low.similarity = high.similarity
       /\ \/ low.classification = high.classification
          \/ high.classification = UnclassifiedLabel(low.classification)

C15_Witness ==
  /\ other.pc = "evaluate"
  /\ thresholds[1] # thresholds[2]
  /\ \E i \in RecordedByBoth :
       /\ document_classifications[i].classification \in Names
       /\ other.document_classifications[i].classification
            = UnclassifiedLabel(document_classifications[i].classification)
  /\ \E i \in RecordedByBoth :
       /\ other.document_classifications[i].classification \in Names
       /\ document_classifications[i].classification
            = other.document_classifications[i].classification

====
